---- MODULE Spec2Model ----
(***************************************************************************)
(* Model of the two buffer-pool components of the repository:             *)
(*   - LRUKReplacer      (lru_k_replacer.h / lru_k_replacer.cpp)           *)
(*   - ExtendibleHashTable<int, int> (extendible_hash_table.cpp)           *)
(* Sequences are 1-based: the C++ index i is the TLA+ index i + 1.         *)
(***************************************************************************)
EXTENDS Integers, Sequences, FiniteSets, TLC

(***************************************************************************)
(* Bounds of the model.                                                    *)
(***************************************************************************)
\* replacer_size_ (num_frames) given to the constructor
NumFrames == 2
\* largest k given to the constructor; every k in 1..MaxK is explored
MaxK == 3
\* largest value of the logical clock explored
MaxClock == 5
\* the constructor reads the wall clock; start values 0..MaxStart are explored
MaxStart == 1

\* largest bucket_size given to the constructor; 1..MaxBucketSize are explored
MaxBucketSize == 2
\* keys are 0..MaxKey, values 1..MaxValue
MaxKey == 4
MaxValue == 2
\* the recursion of Insert is followed up to this global depth
MaxDepth == 4
\* with several threads: Insert calls per thread, and keys 0..MaxThreadKey
MaxCalls == 2
MaxThreadKey == 3

\* frame ids the callers use: one more id than the replacer has room for
FrameIds == 1..(NumFrames + 1)
\* the caller's *frame_id before Evict writes it (an id that names no frame)
NoFrame == 0
\* stands for SIZE_MAX (2^64 - 1): larger than any difference of timestamps
SIZE_MAX == 2147483647

VARIABLES
    frames_,             \* std::vector<FrameInfo>: records in creation order
    curr_size_,          \* size_t curr_size_
    current_timestamp_,  \* size_t current_timestamp_
    k_,                  \* size_t k_
    rlast,               \* the last replacer call: its arguments, its result
                         \* and the replacer as it was when the call began
    latch_,              \* std::mutex latch_: the thread holding it, 0 when free
    pc,                  \* per thread: where it stands inside a replacer call
    local,               \* per thread: the locals of the call it is inside
    sizeSeen,            \* what the last Size() call of any thread saw
    global_depth_,       \* int global_depth_
    bucket_size_,        \* size_t bucket_size_
    num_buckets_,        \* int num_buckets_
    dir_,                \* std::vector<std::shared_ptr<Bucket>>: bucket ids
    heap,                \* the Bucket objects by id: [depth, list]
    kv,                  \* the plain key-to-value map the same calls produce
    hlast,               \* the last hash table call: arguments and result, the
                         \* map's value for the key and the depth and bucket
                         \* count when the call began
    hpc,                 \* per thread: where it stands inside Insert
    hlocal               \* per thread: key, value and bucket of its Insert

rvars == <<frames_, curr_size_, current_timestamp_, k_, rlast>>
tvars == <<latch_, pc, local, sizeSeen>>
hvars == <<global_depth_, bucket_size_, num_buckets_, dir_, heap, kv, hlast>>
htvars == <<hpc, hlocal>>
vars == <<rvars, tvars, hvars, htvars>>

\* the threads calling into one replacer
Threads == 1..2
\* largest value of the logical clock explored with several threads
MaxThreadClock == 3

(***************************************************************************)
(* LRUKReplacer: helpers                                                   *)
(***************************************************************************)
FrameInfo(fid) == [frame_id |-> fid, accesses |-> <<>>, evictable |-> FALSE]

\* FindInternal: the first index holding frame_id, 0 when there is none
FindInternal(fs, fid) ==
    IF \E i \in 1..Len(fs) : fs[i].frame_id = fid
    THEN CHOOSE i \in 1..Len(fs) :
            /\ fs[i].frame_id = fid
            /\ \A j \in 1..(i - 1) : fs[j].frame_id # fid
    ELSE 0

\* an erase that drops the front record whatever the index
Erase_Front(fs, i) == Tail(fs)

\* frames_.erase(frames_.begin() + index)
Erase(fs, i) == [j \in 1..(Len(fs) - 1) |-> IF j < i THEN fs[j] ELSE fs[j + 1]]

\* RemoveInternal without the assertion of line 175
RemoveInternal_NoAssert(fs, size, fid) ==
    LET index == FindInternal(fs, fid) IN
    IF index = 0 THEN [ok |-> TRUE, frames |-> fs, size |-> size]
    ELSE [ok |-> TRUE, frames |-> Erase(fs, index), size |-> size - 1]

\* RemoveInternal on (frames, size): ok = FALSE is the failed BUSTUB_ASSERT,
\* raised before anything is changed
RemoveInternal(fs, size, fid) ==
    LET index == FindInternal(fs, fid) IN
    IF index = 0 THEN [ok |-> TRUE, frames |-> fs, size |-> size]
    ELSE IF ~fs[index].evictable THEN [ok |-> FALSE, frames |-> fs, size |-> size]
    ELSE [ok |-> TRUE, frames |-> Erase(fs, index), size |-> size - 1]

\* the size adjustment of SetEvictableInternal (lines 183-187)
SizeAfterSet_Always(size, was, set_evictable) ==
    IF set_evictable THEN size + 1 ELSE size - 1

SizeAfterSet(size, was, set_evictable) ==
    IF ~was /\ set_evictable THEN size + 1
    ELSE IF was /\ ~set_evictable THEN size - 1
    ELSE size

\* SetEvictableInternal flipping the flag whatever set_evictable is
SetEvictableInternal_Toggle(fs, size, fid, set_evictable) ==
    LET index == FindInternal(fs, fid) IN
    IF index = 0 THEN [ok |-> FALSE, frames |-> fs, size |-> size]
    ELSE [ok |-> TRUE,
          frames |-> [fs EXCEPT ![index].evictable = ~@],
          size |-> SizeAfterSet(size, fs[index].evictable, ~fs[index].evictable)]

SetEvictableInternal(fs, size, fid, set_evictable) ==
    LET index == FindInternal(fs, fid) IN
    IF index = 0 THEN [ok |-> FALSE, frames |-> fs, size |-> size]
    ELSE [ok |-> TRUE,
          frames |-> [fs EXCEPT ![index].evictable = set_evictable],
          size |-> SizeAfterSet(size, fs[index].evictable, set_evictable)]

\* the capacity assertion of RecordAccessInternal (line 195)
HasRoom_OffByOne(fs, cap) == Len(fs) <= cap

HasRoom(fs, cap) == Len(fs) < cap

\* RecordAccessInternal: the clock is advanced before the assertion is tested
RecordAccessInternal(fs, now, cap, fid) ==
    LET t == now + 1
        index == FindInternal(fs, fid) IN
    IF index # 0
    THEN [ok |-> TRUE, clock |-> t,
          frames |-> [fs EXCEPT ![index].accesses = Append(@, t)]]
    ELSE IF ~HasRoom(fs, cap) THEN [ok |-> FALSE, clock |-> t, frames |-> fs]
    ELSE [ok |-> TRUE, clock |-> t,
          frames |-> Append(fs, [FrameInfo(fid) EXCEPT !.accesses = <<t>>])]

\* the order in which EvictInternal visits frames_: rbegin() to rend()
ScanOrder_Forward(n) == [i \in 1..n |-> i]

ScanOrder(n) == [i \in 1..n |-> n - i + 1]

\* one iteration of the loop of EvictInternal (lines 209-220) on the frame f;
\* st = [distance, frame_id, found]
EvictVisit_NoFlagTest(st, f, k, now) ==
    LET n == Len(f.accesses) IN
    IF n < k
    THEN [distance |-> SIZE_MAX, frame_id |-> f.frame_id, found |-> TRUE]
    ELSE IF now - f.accesses[n - k + 1] > st.distance
    THEN [distance |-> now - f.accesses[k], frame_id |-> f.frame_id, found |-> TRUE]
    ELSE [st EXCEPT !.found = TRUE]

\* the loop body keeping the first frame below k accesses that the scan met
EvictVisit_KeepFirstBelowK(st, f, k, now) ==
    LET n == Len(f.accesses) IN
    IF ~f.evictable THEN st
    ELSE IF n < k
    THEN IF st.distance = SIZE_MAX THEN st
         ELSE [distance |-> SIZE_MAX, frame_id |-> f.frame_id, found |-> TRUE]
    ELSE IF now - f.accesses[n - k + 1] > st.distance
    THEN [distance |-> now - f.accesses[k], frame_id |-> f.frame_id, found |-> TRUE]
    ELSE [st EXCEPT !.found = TRUE]

EvictVisit_FiniteBelowK(st, f, k, now) ==
    LET n == Len(f.accesses) IN
    IF ~f.evictable THEN st
    ELSE IF n < k
    THEN [distance |-> st.distance, frame_id |-> f.frame_id, found |-> TRUE]
    ELSE IF now - f.accesses[n - k + 1] > st.distance
    THEN [distance |-> now - f.accesses[k], frame_id |-> f.frame_id, found |-> TRUE]
    ELSE [st EXCEPT !.found = TRUE]

EvictVisit(st, f, k, now) ==
    LET n == Len(f.accesses) IN
    IF ~f.evictable THEN st
    ELSE IF n < k
    THEN [distance |-> SIZE_MAX, frame_id |-> f.frame_id, found |-> TRUE]
    ELSE IF now - f.accesses[n - k + 1] > st.distance
    THEN [distance |-> now - f.accesses[k], frame_id |-> f.frame_id, found |-> TRUE]
    ELSE [st EXCEPT !.found = TRUE]

RECURSIVE EvictLoop(_, _, _, _, _, _)
EvictLoop(fs, order, pos, st, k, now) ==
    IF pos > Len(order) THEN st
    ELSE EvictLoop(fs, order, pos + 1, EvictVisit(st, fs[order[pos]], k, now), k, now)

\* EvictInternal: out0 is what *frame_id held when the caller passed it in
EvictInternal(fs, size, now, k, out0) ==
    LET t == now + 1
        st == EvictLoop(fs, ScanOrder(Len(fs)), 1,
                        [distance |-> 0, frame_id |-> out0, found |-> FALSE], k, t)
        rm == RemoveInternal(fs, size, st.frame_id) IN
    IF st.found
    THEN [ok |-> rm.ok, found |-> TRUE, frame_id |-> st.frame_id, clock |-> t,
          frames |-> rm.frames, size |-> rm.size]
    ELSE [ok |-> TRUE, found |-> FALSE, frame_id |-> st.frame_id, clock |-> t,
          frames |-> fs, size |-> size]

(***************************************************************************)
(* LRUKReplacer: one caller at a time                                      *)
(***************************************************************************)
Pre == [frames |-> frames_, size |-> curr_size_, clock |-> current_timestamp_]

Call(op, fid, flag, ok, found, ret) ==
    [op |-> op, frame |-> fid, flag |-> flag, ok |-> ok, found |-> found,
     ret |-> ret, pre |-> Pre]

\* BUSTUB_ASSERT is taken as active (a debug build): a failed assertion ends
\* the process at that statement, and nothing is called after it
Running == rlast.ok

RecordAccess(fid) ==
    LET r == RecordAccessInternal(frames_, current_timestamp_, NumFrames, fid) IN
    /\ Running
    /\ current_timestamp_ < MaxClock
    /\ frames_' = r.frames
    /\ current_timestamp_' = r.clock
    /\ rlast' = Call("record_access", fid, FALSE, r.ok, FALSE, 0)
    /\ UNCHANGED <<curr_size_, k_, tvars, hvars, htvars>>

SetEvictable(fid, flag) ==
    LET r == SetEvictableInternal(frames_, curr_size_, fid, flag) IN
    /\ Running
    /\ frames_' = r.frames
    /\ curr_size_' = r.size
    /\ rlast' = Call("set_evictable", fid, flag, r.ok, FALSE, 0)
    /\ UNCHANGED <<current_timestamp_, k_, tvars, hvars, htvars>>

Remove(fid) ==
    LET r == RemoveInternal(frames_, curr_size_, fid) IN
    /\ Running
    /\ frames_' = r.frames
    /\ curr_size_' = r.size
    /\ rlast' = Call("remove", fid, FALSE, r.ok, FALSE, 0)
    /\ UNCHANGED <<current_timestamp_, k_, tvars, hvars, htvars>>

Evict(out0) ==
    LET r == EvictInternal(frames_, curr_size_, current_timestamp_, k_, out0) IN
    /\ Running
    /\ current_timestamp_ < MaxClock
    /\ frames_' = r.frames
    /\ curr_size_' = r.size
    /\ current_timestamp_' = r.clock
    /\ rlast' = Call("evict", out0, FALSE, r.ok, r.found, r.frame_id)
    /\ UNCHANGED <<k_, tvars, hvars, htvars>>

Size ==
    /\ Running
    /\ rlast' = Call("size", NoFrame, FALSE, TRUE, FALSE, curr_size_)
    /\ UNCHANGED <<frames_, curr_size_, current_timestamp_, k_, tvars, hvars, htvars>>

RNext ==
    \/ \E fid \in FrameIds : RecordAccess(fid)
    \/ \E fid \in FrameIds, flag \in BOOLEAN : SetEvictable(fid, flag)
    \/ \E fid \in FrameIds : Remove(fid)
    \/ \E out0 \in FrameIds \cup {NoFrame} : Evict(out0)
    \/ Size

(***************************************************************************)
(* LRUKReplacer: several threads.  Evict, RecordAccess, SetEvictable and   *)
(* Remove take latch_ (std::scoped_lock) for the whole call; Size() reads  *)
(* curr_size_ without taking it (lru_k_replacer.cpp, line 54).  A call     *)
(* that updates both curr_size_ and frames_ is two steps, in the order of  *)
(* its statements, with the latch held in between.                         *)
(***************************************************************************)
NoLocal == [index |-> 0, flag |-> FALSE]

\* std::scoped_lock lock(latch_) at the head of a call
CanLock(t) == Running /\ pc[t] = "idle" /\ latch_ = 0

Aborted == [rlast EXCEPT !.ok = FALSE]

\* RecordAccess: lines 39-42 and 191-202, one critical section
TRecordAccess(t, fid) ==
    LET r == RecordAccessInternal(frames_, current_timestamp_, NumFrames, fid) IN
    /\ CanLock(t)
    /\ current_timestamp_ < MaxThreadClock
    /\ frames_' = r.frames
    /\ current_timestamp_' = r.clock
    /\ rlast' = IF r.ok THEN rlast ELSE Aborted
    /\ UNCHANGED <<curr_size_, k_, tvars, hvars, htvars>>

\* SetEvictable, lines 181-187: lock, find, assert, adjust curr_size_
TSetEvictableSize(t, fid, flag) ==
    LET index == FindInternal(frames_, fid) IN
    /\ CanLock(t)
    /\ IF index = 0
       THEN /\ rlast' = Aborted
            /\ UNCHANGED <<curr_size_, latch_, pc, local>>
       ELSE /\ curr_size_' = SizeAfterSet(curr_size_, frames_[index].evictable, flag)
            /\ latch_' = t
            /\ pc' = [pc EXCEPT ![t] = "set_flag"]
            /\ local' = [local EXCEPT ![t] = [index |-> index, flag |-> flag]]
            /\ UNCHANGED rlast
    /\ UNCHANGED <<frames_, current_timestamp_, k_, sizeSeen, hvars, htvars>>

\* SetEvictable, line 188: store the flag, then unlock
TSetEvictableFlag(t) ==
    /\ pc[t] = "set_flag"
    /\ frames_' = [frames_ EXCEPT ![local[t].index].evictable = local[t].flag]
    /\ latch_' = 0
    /\ pc' = [pc EXCEPT ![t] = "idle"]
    /\ local' = [local EXCEPT ![t] = NoLocal]
    /\ UNCHANGED <<curr_size_, current_timestamp_, k_, rlast, sizeSeen, hvars, htvars>>

\* Remove, lines 171-176: lock, find, assert, erase the record
TRemoveErase(t, fid) ==
    LET r == RemoveInternal(frames_, curr_size_, fid) IN
    /\ CanLock(t)
    /\ IF ~r.ok
       THEN /\ rlast' = Aborted
            /\ UNCHANGED <<frames_, latch_, pc>>
       ELSE IF r.frames = frames_
       THEN UNCHANGED <<frames_, latch_, pc, rlast>>
       ELSE /\ frames_' = r.frames
            /\ latch_' = t
            /\ pc' = [pc EXCEPT ![t] = "dec_size"]
            /\ UNCHANGED rlast
    /\ UNCHANGED <<curr_size_, current_timestamp_, k_, local, sizeSeen, hvars, htvars>>

\* RemoveInternal, line 177: curr_size_--, then unlock
TDecSize(t) ==
    /\ pc[t] = "dec_size"
    /\ curr_size_' = curr_size_ - 1
    /\ latch_' = 0
    /\ pc' = [pc EXCEPT ![t] = "idle"]
    /\ UNCHANGED <<frames_, current_timestamp_, k_, rlast, local, sizeSeen, hvars, htvars>>

\* Evict, lines 205-224 and 171-176: lock, scan, erase the victim's record
TEvictErase(t, out0) ==
    LET r == EvictInternal(frames_, curr_size_, current_timestamp_, k_, out0) IN
    /\ CanLock(t)
    /\ current_timestamp_ < MaxThreadClock
    /\ current_timestamp_' = r.clock
    /\ IF ~r.ok
       THEN /\ rlast' = Aborted
            /\ UNCHANGED <<frames_, latch_, pc>>
       ELSE IF r.frames = frames_
       THEN UNCHANGED <<frames_, latch_, pc, rlast>>
       ELSE /\ frames_' = r.frames
            /\ latch_' = t
            /\ pc' = [pc EXCEPT ![t] = "dec_size"]
            /\ UNCHANGED rlast
    /\ UNCHANGED <<curr_size_, k_, local, sizeSeen, hvars, htvars>>

\* Size(): return curr_size_, with no lock taken.  sizeSeen keeps the value
\* returned, the number of evictable records at that instant and the thread
\* that held the latch at that instant.
TSize(t) ==
    /\ Running
    /\ pc[t] = "idle"
    /\ sizeSeen' =
            [thread |-> t,
             value |-> curr_size_,
             evictable |-> Cardinality({i \in 1..Len(frames_) : frames_[i].evictable}),
             holder |-> latch_]
    /\ UNCHANGED <<rvars, latch_, pc, local, hvars, htvars>>

TNext ==
    \/ \E t \in Threads, fid \in FrameIds : TRecordAccess(t, fid)
    \/ \E t \in Threads, fid \in FrameIds, flag \in BOOLEAN : TSetEvictableSize(t, fid, flag)
    \/ \E t \in Threads : TSetEvictableFlag(t)
    \/ \E t \in Threads, fid \in FrameIds : TRemoveErase(t, fid)
    \/ \E t \in Threads : TDecSize(t)
    \/ \E t \in Threads, out0 \in FrameIds \cup {NoFrame} : TEvictErase(t, out0)
    \/ \E t \in Threads : TSize(t)

(***************************************************************************)
(* ExtendibleHashTable<int, int>                                           *)
(***************************************************************************)
Keys == 0..MaxKey
Values == 1..MaxValue
NoValue == 0

RECURSIVE Pow2(_)
Pow2(n) == IF n <= 0 THEN 1 ELSE 2 * Pow2(n - 1)

\* std::hash<int>: the identity in the standard libraries the project builds with
Hash(key) == key

\* IndexOf: hash & ((1 << global_depth_) - 1)
IndexOf(gd, key) == Hash(key) % Pow2(gd)

Table == [global_depth |-> global_depth_, num_buckets |-> num_buckets_,
          dir |-> dir_, heap |-> heap, overflow |-> FALSE]

\* Bucket::Find: the first entry with the key
BucketFind(list, key) ==
    IF \E i \in 1..Len(list) : list[i].key = key
    THEN LET i == CHOOSE i \in 1..Len(list) :
                     /\ list[i].key = key
                     /\ \A j \in 1..(i - 1) : list[j].key # key
         IN [found |-> TRUE, value |-> list[i].value, at |-> i]
    ELSE [found |-> FALSE, value |-> NoValue, at |-> 0]

\* Bucket::Remove: erase the first entry with the key
BucketRemove(list, key) ==
    LET f == BucketFind(list, key) IN
    IF f.found
    THEN [ok |-> TRUE,
          list |-> [j \in 1..(Len(list) - 1) |-> IF j < f.at THEN list[j] ELSE list[j + 1]]]
    ELSE [ok |-> FALSE, list |-> list]

\* Bucket::IsFull (declared in extendible_hash_table.h)
IsFull(list, size) == Len(list) = size

\* Bucket::Insert: overwrite the key's value, or append when there is room
\* a Bucket::Insert without the IsFull() test of lines 378-380
BucketInsert_NoFullTest(list, size, key, value) ==
    LET f == BucketFind(list, key) IN
    IF f.found THEN [ok |-> TRUE, list |-> [list EXCEPT ![f.at].value = value]]
    ELSE [ok |-> TRUE, list |-> Append(list, [key |-> key, value |-> value])]

\* a Bucket::Insert that tests IsFull() before it looks for the key
BucketInsert_FullFirst(list, size, key, value) ==
    LET f == BucketFind(list, key) IN
    IF IsFull(list, size) THEN [ok |-> FALSE, list |-> list]
    ELSE IF f.found THEN [ok |-> TRUE, list |-> [list EXCEPT ![f.at].value = value]]
    ELSE [ok |-> TRUE, list |-> Append(list, [key |-> key, value |-> value])]

BucketInsert_NoOverwrite(list, size, key, value) ==
    IF IsFull(list, size) THEN [ok |-> FALSE, list |-> list]
    ELSE [ok |-> TRUE, list |-> Append(list, [key |-> key, value |-> value])]

BucketInsert(list, size, key, value) ==
    LET f == BucketFind(list, key) IN
    IF f.found THEN [ok |-> TRUE, list |-> [list EXCEPT ![f.at].value = value]]
    ELSE IF IsFull(list, size) THEN [ok |-> FALSE, list |-> list]
    ELSE [ok |-> TRUE, list |-> Append(list, [key |-> key, value |-> value])]

\* lines 328-331: every slot i is pushed again, as slot i + old size (after
\* reserve() the push_back does not reallocate, and the loop ends at the end
\* the range-for read before the first push_back)
DoubleDirectory_OneMore(dir) == dir \o dir \o <<dir[1]>>

DoubleDirectory_Front(dir) == dir \o [i \in 1..Len(dir) |-> dir[1]]

DoubleDirectory(dir) == dir \o dir

\* RedistributeBucket(bucket), after bucket's depth was incremented: a sibling
\* of the same depth is created, the entries whose hash has the new bit set move
\* to it, and so do the slots that referenced the bucket and have that bit set
NewBit(h, depth) == (h \div Pow2(depth - 1)) % 2

RedistributeBucket(tb, b) ==
    LET d == tb.heap[b].depth
        list == tb.heap[b].list
        stay == SelectSeq(list, LAMBDA e : NewBit(Hash(e.key), d) = 0)
        move == SelectSeq(list, LAMBDA e : NewBit(Hash(e.key), d) = 1)
        sibling == Len(tb.heap) + 1
    IN [tb EXCEPT
          !.heap = Append([@ EXCEPT ![b].list = stay], [depth |-> d, list |-> move]),
          !.dir = [i \in 1..Len(@) |->
                      IF @[i] = b /\ NewBit(i - 1, d) = 1 THEN sibling ELSE @[i]],
          !.num_buckets = @ + 1]

\* Insert, lines 326-334: the bucket b turned the entry down
SplitStep(tb, b) ==
    LET grown == IF tb.heap[b].depth = tb.global_depth
                 THEN [tb EXCEPT !.global_depth = @ + 1,
                                 !.dir = DoubleDirectory(@)]
                 ELSE tb
        deeper == [grown EXCEPT !.heap[b].depth = @ + 1]
    IN RedistributeBucket(deeper, b)

\* an Insert that splits once and gives the entry up if that made no room
Insert_OneSplit(tb, size, key, value) ==
    LET b == tb.dir[IndexOf(tb.global_depth, key) + 1]
        r == BucketInsert(tb.heap[b].list, size, key, value)
        split == SplitStep(tb, b)
        b2 == split.dir[IndexOf(split.global_depth, key) + 1]
        r2 == BucketInsert(split.heap[b2].list, size, key, value)
    IN IF r.ok THEN [tb EXCEPT !.heap[b].list = r.list]
       ELSE IF r2.ok THEN [split EXCEPT !.heap[b2].list = r2.list]
       ELSE split

\* ExtendibleHashTable::Insert, with its recursive call
RECURSIVE Insert(_, _, _, _)
Insert(tb, size, key, value) ==
    LET b == tb.dir[IndexOf(tb.global_depth, key) + 1]
        r == BucketInsert(tb.heap[b].list, size, key, value)
    IN IF r.ok THEN [tb EXCEPT !.heap[b].list = r.list]
       ELSE IF tb.global_depth >= MaxDepth \/ tb.num_buckets >= Pow2(MaxDepth)
       THEN [tb EXCEPT !.overflow = TRUE]
       ELSE Insert(SplitStep(tb, b), size, key, value)

\* ExtendibleHashTable::Find
Find(tb, key) ==
    LET index == IndexOf(tb.global_depth, key) IN
    IF index >= Len(tb.dir) THEN [found |-> FALSE, value |-> NoValue, at |-> 0]
    ELSE BucketFind(tb.heap[tb.dir[index + 1]].list, key)

\* ExtendibleHashTable::Remove
RemoveKey(tb, key) ==
    LET index == IndexOf(tb.global_depth, key)
        b == tb.dir[index + 1]
        r == BucketRemove(tb.heap[b].list, key)
    IN IF index >= Len(tb.dir) THEN [ok |-> FALSE, table |-> tb]
       ELSE [ok |-> r.ok, table |-> [tb EXCEPT !.heap[b].list = r.list]]

Store(tb) ==
    /\ global_depth_' = tb.global_depth
    /\ num_buckets_' = tb.num_buckets
    /\ dir_' = tb.dir
    /\ heap' = tb.heap

HInsert(key, value) ==
    LET tb == Insert(Table, bucket_size_, key, value) IN
    /\ hlast.ok
    /\ Store(tb)
    /\ kv' = [kv EXCEPT ![key] = value]
    /\ hlast' = [op |-> "insert", key |-> key, value |-> value, found |-> FALSE,
                 expect |-> kv[key], ok |-> ~tb.overflow,
                 depth0 |-> global_depth_, buckets0 |-> num_buckets_]
    /\ UNCHANGED <<bucket_size_, rvars, tvars, htvars>>

HRemove(key) ==
    LET r == RemoveKey(Table, key) IN
    /\ hlast.ok
    /\ Store(r.table)
    /\ kv' = [kv EXCEPT ![key] = NoValue]
    /\ hlast' = [op |-> "remove", key |-> key, value |-> NoValue, found |-> r.ok,
                 expect |-> kv[key], ok |-> TRUE,
                 depth0 |-> global_depth_, buckets0 |-> num_buckets_]
    /\ UNCHANGED <<bucket_size_, rvars, tvars, htvars>>

HFind(key) ==
    LET r == Find(Table, key) IN
    /\ hlast.ok
    /\ hlast' = [op |-> "find", key |-> key, value |-> r.value, found |-> r.found,
                 expect |-> kv[key], ok |-> TRUE,
                 depth0 |-> global_depth_, buckets0 |-> num_buckets_]
    /\ UNCHANGED <<global_depth_, bucket_size_, num_buckets_, dir_, heap, kv, rvars, tvars, htvars>>

HNext ==
    \/ \E key \in Keys, value \in Values : HInsert(key, value)
    \/ \E key \in Keys : HRemove(key)
    \/ \E key \in Keys : HFind(key)

(***************************************************************************)
(* ExtendibleHashTable: several threads.  Insert, Find and Remove take no  *)
(* lock (only the three depth getters do), so the statements of Insert of  *)
(* different threads interleave.  One step is one statement group of       *)
(* Insert: line 322, line 323, lines 326-332, lines 333-335.               *)
(***************************************************************************)
NoInsert == [key |-> 0, value |-> NoValue, bucket |-> 0, calls |-> 0]

\* line 322: bucket = dir_.at(IndexOf(key)), on entry to Insert
HTInsertCall(t, key, value) ==
    /\ hlast.ok
    /\ hpc[t] = "idle"
    /\ hlocal[t].calls < MaxCalls
    /\ hlocal' = [hlocal EXCEPT ![t] =
            [key |-> key, value |-> value,
             bucket |-> dir_[IndexOf(global_depth_, key) + 1],
             calls |-> @.calls + 1]]
    /\ hpc' = [hpc EXCEPT ![t] = "try"]
    /\ UNCHANGED <<hvars, rvars, tvars>>

\* line 335 and line 322: the recursive call fetches the bucket again
HTInsertRetry(t) ==
    /\ hlast.ok
    /\ hpc[t] = "retry"
    /\ hlocal' = [hlocal EXCEPT ![t].bucket =
                     dir_[IndexOf(global_depth_, hlocal[t].key) + 1]]
    /\ hpc' = [hpc EXCEPT ![t] = "try"]
    /\ UNCHANGED <<hvars, rvars, tvars>>

\* line 323: bucket->Insert(key, value) on the bucket fetched before; when it
\* takes the entry, Insert returns
HTBucketInsert(t) ==
    LET b == hlocal[t].bucket
        r == BucketInsert(heap[b].list, bucket_size_, hlocal[t].key, hlocal[t].value)
    IN /\ hlast.ok
       /\ hpc[t] = "try"
       /\ IF r.ok
          THEN /\ heap' = [heap EXCEPT ![b].list = r.list]
               /\ kv' = [kv EXCEPT ![hlocal[t].key] = hlocal[t].value]
               /\ hlast' = [op |-> "insert", key |-> hlocal[t].key,
                            value |-> hlocal[t].value, found |-> FALSE,
                            expect |-> kv[hlocal[t].key], ok |-> TRUE,
                            depth0 |-> global_depth_, buckets0 |-> num_buckets_]
               /\ hpc' = [hpc EXCEPT ![t] = "idle"]
               /\ hlocal' = [hlocal EXCEPT ![t] = [NoInsert EXCEPT !.calls = hlocal[t].calls]]
          ELSE /\ hpc' = [hpc EXCEPT ![t] = "grow"]
               /\ UNCHANGED <<heap, kv, hlast, hlocal>>
       /\ UNCHANGED <<global_depth_, bucket_size_, num_buckets_, dir_, rvars, tvars>>

\* a doubling without the depth test of line 326
HTGrow_Always(t) ==
    /\ hlast.ok
    /\ hpc[t] = "grow"
    /\ IF global_depth_ >= MaxDepth
       THEN /\ hlast' = [hlast EXCEPT !.ok = FALSE]
            /\ UNCHANGED <<global_depth_, dir_>>
       ELSE /\ global_depth_' = global_depth_ + 1
            /\ dir_' = DoubleDirectory(dir_)
            /\ UNCHANGED hlast
    /\ hpc' = [hpc EXCEPT ![t] = "split"]
    /\ UNCHANGED <<bucket_size_, num_buckets_, heap, kv, hlocal, rvars, tvars>>

\* lines 326-332: double the directory when the bucket is as deep as it
HTGrow(t) ==
    LET b == hlocal[t].bucket IN
    /\ hlast.ok
    /\ hpc[t] = "grow"
    /\ IF heap[b].depth # global_depth_
       THEN UNCHANGED <<global_depth_, dir_, hlast>>
       ELSE IF global_depth_ >= MaxDepth
       THEN /\ hlast' = [hlast EXCEPT !.ok = FALSE]
            /\ UNCHANGED <<global_depth_, dir_>>
       ELSE /\ global_depth_' = global_depth_ + 1
            /\ dir_' = DoubleDirectory(dir_)
            /\ UNCHANGED hlast
    /\ hpc' = [hpc EXCEPT ![t] = "split"]
    /\ UNCHANGED <<bucket_size_, num_buckets_, heap, kv, hlocal, rvars, tvars>>

\* lines 333-334: bucket->IncrementDepth(); RedistributeBucket(bucket)
HTSplit(t) ==
    LET b == hlocal[t].bucket
        tb == RedistributeBucket([Table EXCEPT !.heap[b].depth = @ + 1], b)
    IN /\ hlast.ok
       /\ hpc[t] = "split"
       /\ IF heap[b].depth >= MaxDepth
          THEN /\ hlast' = [hlast EXCEPT !.ok = FALSE]
               /\ UNCHANGED <<global_depth_, num_buckets_, dir_, heap>>
          ELSE /\ Store(tb)
               /\ UNCHANGED hlast
       /\ hpc' = [hpc EXCEPT ![t] = "retry"]
       /\ UNCHANGED <<bucket_size_, kv, hlocal, rvars, tvars>>

\* Find, lines 304-308, between the steps of the other thread's Insert
HTFind(t, key) ==
    LET r == Find(Table, key) IN
    /\ hlast.ok
    /\ hpc[t] = "idle"
    /\ hlast' = [op |-> "find", key |-> key, value |-> r.value, found |-> r.found,
                 expect |-> kv[key], ok |-> TRUE,
                 depth0 |-> global_depth_, buckets0 |-> num_buckets_]
    /\ UNCHANGED <<global_depth_, bucket_size_, num_buckets_, dir_, heap, kv,
                   rvars, tvars, htvars>>

HTNext ==
    \/ \E t \in Threads, key \in 0..MaxThreadKey : HTInsertCall(t, key, 1)
    \/ \E t \in Threads : HTInsertRetry(t)
    \/ \E t \in Threads : HTBucketInsert(t)
    \/ \E t \in Threads : HTGrow(t)
    \/ \E t \in Threads : HTSplit(t)
    \/ \E t \in Threads, key \in 0..MaxThreadKey : HTFind(t, key)

(***************************************************************************)
(* ExtendibleHashTable: one caller, Insert statement by statement.  The    *)
(* caller is thread 1; Find and Remove run between its calls of Insert.    *)
(***************************************************************************)
\* line 322, on entry to Insert
HSInsertCall(key, value) ==
    /\ hlast.ok
    /\ hpc[1] = "idle"
    /\ hlocal' = [hlocal EXCEPT ![1] =
            [key |-> key, value |-> value,
             bucket |-> dir_[IndexOf(global_depth_, key) + 1],
             calls |-> 0]]
    /\ hpc' = [hpc EXCEPT ![1] = "try"]
    /\ UNCHANGED <<hvars, rvars, tvars>>

\* ExtendibleHashTable::Remove, lines 311-318
HSRemove(key) ==
    LET r == RemoveKey(Table, key) IN
    /\ hlast.ok
    /\ hpc[1] = "idle"
    /\ Store(r.table)
    /\ kv' = [kv EXCEPT ![key] = NoValue]
    /\ hlast' = [op |-> "remove", key |-> key, value |-> NoValue, found |-> r.ok,
                 expect |-> kv[key], ok |-> TRUE,
                 depth0 |-> global_depth_, buckets0 |-> num_buckets_]
    /\ UNCHANGED <<bucket_size_, rvars, tvars, htvars>>

HSNext ==
    \/ \E key \in Keys, value \in Values : HSInsertCall(key, value)
    \/ HTInsertRetry(1)
    \/ HTBucketInsert(1)
    \/ HTGrow(1)
    \/ HTSplit(1)
    \/ \E key \in Keys : HTFind(1, key)
    \/ \E key \in Keys : HSRemove(key)

(***************************************************************************)
(* Specifications                                                          *)
(***************************************************************************)
\* the constructors: LRUKReplacer(num_frames, k) reads the wall clock into
\* current_timestamp_; ExtendibleHashTable(bucket_size) starts with depth 0 and
\* one empty bucket.  A run exercises one component; the other one stays as
\* constructed with its smallest arguments.
Init ==
    /\ frames_ = <<>>
    /\ curr_size_ = 0
    /\ current_timestamp_ \in 0..MaxStart
    /\ k_ \in 1..MaxK
    /\ rlast = [op |-> "new", frame |-> NoFrame, flag |-> FALSE, ok |-> TRUE,
                found |-> FALSE, ret |-> 0,
                pre |-> [frames |-> <<>>, size |-> 0, clock |-> current_timestamp_]]
    /\ latch_ = 0
    /\ pc = [t \in Threads |-> "idle"]
    /\ local = [t \in Threads |-> NoLocal]
    /\ sizeSeen = [thread |-> 0, value |-> 0, evictable |-> 0, holder |-> 0]
    /\ global_depth_ = 0
    /\ bucket_size_ = 1
    /\ num_buckets_ = 1
    /\ heap = <<[depth |-> 0, list |-> <<>>]>>
    /\ dir_ = <<1>>
    /\ kv = [key \in Keys |-> NoValue]
    /\ hlast = [op |-> "new", key |-> 0, value |-> NoValue, found |-> FALSE,
                expect |-> NoValue, ok |-> TRUE, depth0 |-> 0, buckets0 |-> 1]
    /\ hpc = [t \in Threads |-> "idle"]
    /\ hlocal = [t \in Threads |-> NoInsert]

HashInit ==
    /\ frames_ = <<>>
    /\ curr_size_ = 0
    /\ current_timestamp_ = 0
    /\ k_ = 1
    /\ rlast = [op |-> "new", frame |-> NoFrame, flag |-> FALSE, ok |-> TRUE,
                found |-> FALSE, ret |-> 0,
                pre |-> [frames |-> <<>>, size |-> 0, clock |-> 0]]
    /\ latch_ = 0
    /\ pc = [t \in Threads |-> "idle"]
    /\ local = [t \in Threads |-> NoLocal]
    /\ sizeSeen = [thread |-> 0, value |-> 0, evictable |-> 0, holder |-> 0]
    /\ global_depth_ = 0
    /\ bucket_size_ \in 1..MaxBucketSize
    /\ num_buckets_ = 1
    /\ heap = <<[depth |-> 0, list |-> <<>>]>>
    /\ dir_ = <<1>>
    /\ kv = [key \in Keys |-> NoValue]
    /\ hlast = [op |-> "new", key |-> 0, value |-> NoValue, found |-> FALSE,
                expect |-> NoValue, ok |-> TRUE, depth0 |-> 0, buckets0 |-> 1]
    /\ hpc = [t \in Threads |-> "idle"]
    /\ hlocal = [t \in Threads |-> NoInsert]

\* the replacer, one call at a time
Spec == Init /\ [][RNext]_vars

\* the replacer, called by several threads
ThreadSpec == Init /\ [][TNext]_vars

\* the hash table, one call at a time
HashSpec == HashInit /\ [][HNext]_vars

\* the hash table, called by several threads
HashThreadSpec == HashInit /\ [][HTNext]_vars

\* the hash table, one caller, Insert statement by statement
HashStepSpec == HashInit /\ [][HSNext]_vars

(***************************************************************************)
(* LRUKReplacer: what the claims speak of                                  *)
(***************************************************************************)
EvictableIn(fs) == {i \in 1..Len(fs) : fs[i].evictable}

\* backward k-distance of a frame with at least k accesses, at clock value now
KDistance(f, k, now) == now - f.accesses[Len(f.accesses) - k + 1]

FirstAccess(f) == f.accesses[1]
LastAccess(f) == f.accesses[Len(f.accesses)]

\* the last call was an Evict that ran to its end
Evicted == rlast.op = "evict" /\ rlast.ok

\* the victim's record, as it was when Evict was called
VictimIn(fs) == fs[FindInternal(fs, rlast.ret)]

\* C1: when every evictable frame has at least k accesses, evict() returns an
\* evictable frame whose backward k-distance (the clock after evict's own
\* increment minus the k-th most recent access) is the maximum over all
\* evictable frames.
C1_MaxKDistance ==
    LET fs == rlast.pre.frames
        now == rlast.pre.clock + 1 IN
    (/\ Evicted
     /\ EvictableIn(fs) # {}
     /\ \A i \in EvictableIn(fs) : Len(fs[i].accesses) >= k_)
    => /\ rlast.found
       /\ FindInternal(fs, rlast.ret) \in EvictableIn(fs)
       /\ \A i \in EvictableIn(fs) :
            KDistance(VictimIn(fs), k_, now) >= KDistance(fs[i], k_, now)

\* C2: whenever an evictable frame has fewer than k accesses, evict() returns
\* a frame with fewer than k accesses.
C2_BelowKFirst ==
    LET fs == rlast.pre.frames IN
    (/\ Evicted
     /\ \E i \in EvictableIn(fs) : Len(fs[i].accesses) < k_)
    => /\ rlast.found
       /\ FindInternal(fs, rlast.ret) \in EvictableIn(fs)
       /\ Len(VictimIn(fs).accesses) < k_

\* C2 witness: evict() chose between a frame below k accesses and an older
\* frame with k or more accesses, the latter created first and accessed first
C2_Witness ==
    LET fs == rlast.pre.frames IN
    /\ Evicted /\ rlast.found
    /\ \E i, j \in EvictableIn(fs) :
          /\ i < j
          /\ Len(fs[i].accesses) > k_
          /\ Len(fs[j].accesses) < k_
          /\ LastAccess(fs[i]) < FirstAccess(fs[j])
          /\ rlast.ret = fs[j].frame_id

AllBelowK(fs) ==
    /\ EvictableIn(fs) # {}
    /\ \A i \in EvictableIn(fs) : Len(fs[i].accesses) < k_

C4_SizeIsEvictableCount ==
    /\ curr_size_ = Cardinality(EvictableIn(frames_))
    /\ rlast.op = "size" => rlast.ret = Cardinality(EvictableIn(frames_))

\* C4 witness: size() answered 1 with two frames tracked, one of them pinned
C4_Witness ==
    /\ rlast.op = "size" /\ rlast.ret = 1
    /\ Len(frames_) = 2
    /\ current_timestamp_ >= 4

\* C7: evict() never returns an untracked or non-evictable frame, and reports
\* no victim if and only if no tracked frame is evictable.
C7_VictimIsEvictable ==
    LET fs == rlast.pre.frames IN
    rlast.op = "evict"
    => /\ rlast.found <=> EvictableIn(fs) # {}
       /\ rlast.found => FindInternal(fs, rlast.ret) \in EvictableIn(fs)

\* C7 witness: evict() found a victim while a non-evictable frame created
\* before it was tracked too
C7_Witness ==
    LET fs == rlast.pre.frames IN
    /\ rlast.op = "evict" /\ rlast.found
    /\ \E i \in 1..Len(fs) : ~fs[i].evictable /\ i < FindInternal(fs, rlast.ret)

\* C10: the number of tracked frame records is at most num_frames.
C10_WithinCapacity == Len(frames_) <= NumFrames

\* C10 witness: a record_access of an unseen frame id arrived with num_frames
\* frames tracked
C10_Witness ==
    /\ rlast.op = "record_access" /\ ~rlast.ok
    /\ Len(rlast.pre.frames) = NumFrames
    /\ FindInternal(rlast.pre.frames, rlast.frame) = 0

\* C8: every public operation of the replacer, size() included, is one
\* critical section under the instance lock: no size() call reads while another
\* thread is in the middle of an operation, and the value it returns is the
\* number of evictable records at that instant.
C8_SizeIsCriticalSection ==
    sizeSeen.thread # 0
    => /\ sizeSeen.holder = 0
       /\ sizeSeen.value = sizeSeen.evictable

(***************************************************************************)
(* ExtendibleHashTable: what the claims speak of                           *)
(***************************************************************************)
\* the answer a plain map gives for a key
Expected(v) == [found |-> v # NoValue, value |-> v]

Answer(r) == [found |-> r.found, value |-> r.value]

\* C5: find(key) returns what a plain key-to-value map returns (the value of
\* the latest insert not followed by a remove, not-found otherwise), and
\* remove(key) returns true exactly when the map holds the key.
C5_FindIsMapLookup ==
    /\ \A key \in Keys : Answer(Find(Table, key)) = Expected(kv[key])
    /\ hlast.op = "find"
          => [found |-> hlast.found, value |-> hlast.value] = Expected(hlast.expect)
    /\ hlast.op = "remove" => hlast.found = (hlast.expect # NoValue)

\* C5 witness: a find() that answers with the overwriting value of a key, in a
\* table whose directory has doubled twice and that has split without doubling
C5_Witness ==
    /\ hlast.op = "find" /\ hlast.found /\ hlast.value = 2
    /\ global_depth_ >= 2
    /\ num_buckets_ > global_depth_ + 1
    /\ \E key \in Keys : key # hlast.key /\ kv[key] # NoValue

Slots == 0..(Len(dir_) - 1)

\* C6: each bucket's local depth is at most the global depth, all slots that
\* agree with a bucket's slot on the low local_depth bits reference that
\* bucket, and each bucket is referenced by 2^(global_depth - local_depth) slots.
C6_DirectoryShape ==
    \A i \in Slots :
        LET b == dir_[i + 1]
            ld == heap[b].depth
        IN /\ ld <= global_depth_
           /\ \A j \in Slots : (j % Pow2(ld) = i % Pow2(ld)) => dir_[j + 1] = b
           /\ Cardinality({j \in Slots : dir_[j + 1] = b}) = Pow2(global_depth_ - ld)

\* C6 witness: after the inserts of two keys that differ in the third hash bit
\* only, a bucket of local depth 1 is referenced by 4 of the 8 slots and a
\* bucket of local depth 3 by one
C6_Witness ==
    /\ hlast.op = "insert"
    /\ global_depth_ = 3
    /\ \E i \in Slots : /\ heap[dir_[i + 1]].depth = 1
                        /\ Cardinality({j \in Slots : dir_[j + 1] = dir_[i + 1]}) = 4
    /\ \E i \in Slots : /\ heap[dir_[i + 1]].depth = 3
                        /\ Cardinality({j \in Slots : dir_[j + 1] = dir_[i + 1]}) = 1

\* C9: insert is atomic with respect to other threads: once no insert is in
\* progress, every key whose insert has returned is found.
C9_ConcurrentInsertsKept ==
    (hlast.ok /\ \A t \in Threads : hpc[t] = "idle")
    => \A key \in Keys : kv[key] # NoValue => Find(Table, key).found

\* C11: the table starts with global depth 0 and one bucket, the global depth
\* never decreases, and in every state between operations the directory has
\* exactly 2^global_depth slots.
C11_DepthOnlyGrows ==
    /\ global_depth_ = 0 /\ num_buckets_ = 1
    /\ [](Len(dir_) = Pow2(global_depth_))
    /\ [][global_depth_' >= global_depth_]_vars

\* C11 witness: the last key of a table whose directory doubled twice was
\* removed, and the table keeps its depth
C11_Witness ==
    /\ hlast.op = "remove" /\ hlast.found
    /\ \A key \in Keys : kv[key] = NoValue
    /\ global_depth_ >= 2

\* the records of fs other than the one at index i, in their order
Others(fs, i) == SelectSeq(fs, LAMBDA f : f.frame_id # fs[i].frame_id)

\* C12: remove() of a tracked frame that is not evictable fails and leaves its
\* record and size() as they were; of an untracked frame id it succeeds and
\* changes nothing; of a tracked evictable frame it deletes the record and
\* lowers size() by one.
C12_RemoveCases ==
    LET fs == rlast.pre.frames
        index == FindInternal(fs, rlast.frame) IN
    rlast.op = "remove"
    => /\ index = 0
            => rlast.ok /\ frames_ = fs /\ curr_size_ = rlast.pre.size
       /\ (index # 0 /\ ~fs[index].evictable)
            => ~rlast.ok /\ frames_ = fs /\ curr_size_ = rlast.pre.size
       /\ (index # 0 /\ fs[index].evictable)
            => /\ rlast.ok
               /\ FindInternal(frames_, rlast.frame) = 0
               /\ frames_ = Others(fs, index)
               /\ curr_size_ = rlast.pre.size - 1
       /\ current_timestamp_ = rlast.pre.clock

\* C12 witness: remove() of a pinned frame was turned down while another
\* frame was evictable
C12_Witness ==
    LET fs == rlast.pre.frames IN
    /\ rlast.op = "remove" /\ ~rlast.ok
    /\ Len(fs) = 2 /\ rlast.pre.size = 1
    /\ ~fs[FindInternal(fs, rlast.frame)].evictable

\* C13: record_access() of an unseen frame id while num_frames frames are
\* tracked fails, and it fails before anything is changed: the tracked
\* records, size() and the logical clock are what they were before the call.
C13_FullRejectsUnchanged ==
    LET fs == rlast.pre.frames IN
    (/\ rlast.op = "record_access"
     /\ FindInternal(fs, rlast.frame) = 0
     /\ Len(fs) = NumFrames)
    => /\ ~rlast.ok
       /\ frames_ = fs
       /\ curr_size_ = rlast.pre.size
       /\ current_timestamp_ = rlast.pre.clock

\* C14: set_evictable(f, flag) on a tracked frame raises size() by one on a
\* change of the flag from false to true only, lowers it by one on a change
\* from true to false only, changes nothing but that frame's flag, and a second
\* call with the same flag leaves the replacer as the first call left it.
C14_SetEvictableIdempotent ==
    LET fs == rlast.pre.frames
        index == FindInternal(fs, rlast.frame)
        was == fs[index].evictable
        again == SetEvictableInternal(frames_, curr_size_, rlast.frame, rlast.flag)
    IN
    (rlast.op = "set_evictable" /\ index # 0)
    => /\ rlast.ok
       /\ curr_size_ - rlast.pre.size =
              (IF ~was /\ rlast.flag THEN 1
               ELSE IF was /\ ~rlast.flag THEN 0 - 1 ELSE 0)
       /\ frames_ = [fs EXCEPT ![index].evictable = rlast.flag]
       /\ current_timestamp_ = rlast.pre.clock
       /\ again.ok /\ again.frames = frames_ /\ again.size = curr_size_

\* C14 witness: set_evictable(f, true) on a frame that was evictable already,
\* with both frames evictable
C14_Witness ==
    LET fs == rlast.pre.frames IN
    /\ rlast.op = "set_evictable" /\ rlast.ok /\ rlast.flag
    /\ fs[FindInternal(fs, rlast.frame)].evictable
    /\ rlast.pre.size = 2 /\ curr_size_ = 2

BelowKIn(fs) == {i \in EvictableIn(fs) : Len(fs[i].accesses) < k_}

C19_EvictFrame ==
    LET fs == rlast.pre.frames
        index == FindInternal(fs, rlast.ret)
        re == RecordAccessInternal(frames_, current_timestamp_, NumFrames, rlast.ret)
    IN
    /\ (rlast.op = "evict" /\ rlast.found)
          => /\ rlast.ok /\ index # 0
             /\ frames_ = Others(fs, index)
             /\ curr_size_ = rlast.pre.size - 1
             /\ re.ok
             /\ re.frames[Len(re.frames)] =
                    [frame_id |-> rlast.ret, evictable |-> FALSE,
                     accesses |-> <<current_timestamp_ + 1>>]
             /\ FindInternal(re.frames, rlast.ret) = Len(re.frames)
    /\ (rlast.op = "evict" /\ ~rlast.found)
          => /\ rlast.ok
             /\ frames_ = fs /\ curr_size_ = rlast.pre.size
             /\ current_timestamp_ = rlast.pre.clock + 1
    /\ rlast.op = "record_access"
          => /\ curr_size_ = rlast.pre.size
             /\ Len(frames_) >= Len(fs)
             /\ \A i \in 1..Len(fs) :
                   /\ frames_[i].frame_id = fs[i].frame_id
                   /\ frames_[i].evictable = fs[i].evictable
             /\ \A i \in (Len(fs) + 1)..Len(frames_) :
                   /\ ~frames_[i].evictable
                   /\ frames_[i].accesses = <<current_timestamp_>>

\* C19 witness: evict() took the second record, a frame below k accesses, and
\* the first record, evictable with k accesses or more, stayed
C19_Witness ==
    LET fs == rlast.pre.frames IN
    /\ rlast.op = "evict" /\ rlast.found
    /\ Len(fs) = 2 /\ FindInternal(fs, rlast.ret) = 2
    /\ fs[1].evictable /\ Len(fs[1].accesses) >= 2
    /\ frames_ = <<fs[1]>>

\* C15: every insert(key, value) returns with the key stored under that
\* value, for every bucket size from 1 up and keys of distinct hash values, also
\* when one insert needs several splits and directory doublings.
C15_InsertTerminatesStored ==
    hlast.op = "insert"
    => /\ hlast.ok
       /\ Answer(Find(Table, hlast.key)) = [found |-> TRUE, value |-> hlast.value]
       /\ kv[hlast.key] = hlast.value

\* C15 witness: one insert doubled the directory three times and split three
\* times, the splits before the last moving no entry apart
C15_Witness ==
    /\ hlast.op = "insert" /\ hlast.ok
    /\ global_depth_ = hlast.depth0 + 3
    /\ num_buckets_ = hlast.buckets0 + 3

\* the bucket that the directory gives for a key
BucketOf(key) == dir_[IndexOf(global_depth_, key) + 1]

\* C18: insert(key, value) of a stored key replaces that entry's value where
\* it is and changes nothing else, also when the key's bucket is full: global
\* depth, directory, bucket count, local depths and the other entries stay, and
\* the same insert once more leaves the table as it is.
C18_OverwriteInPlace ==
    [][(hlast'.op = "insert" /\ kv[hlast'.key] # NoValue)
       => LET after == [global_depth |-> global_depth_', num_buckets |-> num_buckets_',
                        dir |-> dir_', heap |-> heap', overflow |-> FALSE]
          IN /\ hlast'.ok
             /\ global_depth_' = global_depth_
             /\ num_buckets_' = num_buckets_
             /\ dir_' = dir_
             /\ Len(heap') = Len(heap)
             /\ \A b \in 1..Len(heap) :
                   /\ heap'[b].depth = heap[b].depth
                   /\ Len(heap'[b].list) = Len(heap[b].list)
                   /\ \A i \in 1..Len(heap[b].list) :
                         /\ heap'[b].list[i].key = heap[b].list[i].key
                         /\ heap'[b].list[i].value =
                               IF heap[b].list[i].key = hlast'.key
                               THEN hlast'.value ELSE heap[b].list[i].value
             /\ Insert(after, bucket_size_, hlast'.key, hlast'.value) = after
      ]_vars

\* C18 witness: the value of a key was replaced by another one in a full
\* bucket of two entries whose local depth is the global depth
C18_Witness ==
    /\ hlast.op = "insert" /\ hlast.ok
    /\ hlast.expect # NoValue /\ hlast.expect # hlast.value
    /\ Len(heap[BucketOf(hlast.key)].list) = 2 /\ bucket_size_ = 2
    /\ heap[BucketOf(hlast.key)].depth = global_depth_
    /\ heap[BucketOf(hlast.key)].list[1].key = hlast.key

\* the places (bucket, position) at which a key is stored
PlacesOf(key) ==
    {p \in (1..Len(heap)) \X (1..MaxBucketSize) :
        /\ p[2] <= Len(heap[p[1]].list)
        /\ heap[p[1]].list[p[2]].key = key}

\* no bucket above its capacity, and each key of the table stored once, in
\* the bucket of its directory slot
BucketsSound ==
    /\ \A b \in 1..Len(heap) :
          /\ Len(heap[b].list) <= bucket_size_
          /\ \A i \in 1..Len(heap[b].list) : heap[b].list[i].key \in Keys
    /\ \A key \in Keys :
          /\ Cardinality(PlacesOf(key)) = (IF kv[key] = NoValue THEN 0 ELSE 1)
          /\ \A p \in PlacesOf(key) : p[1] = BucketOf(key)

\* C20: between operations no bucket holds more than bucket_size entries and
\* every stored key is in exactly one bucket, the one its directory slot
\* references; find and remove change neither the global depth, nor a local
\* depth, nor the directory, nor the number of buckets.
C20_BucketsAndNoShrink ==
    /\ []BucketsSound
    /\ [][hlast'.op \in {"find", "remove"}
          => /\ global_depth_' = global_depth_
             /\ num_buckets_' = num_buckets_
             /\ dir_' = dir_
             /\ Len(heap') = Len(heap)
             /\ \A b \in 1..Len(heap) : heap'[b].depth = heap[b].depth
         ]_vars

\* C20 witness: a key was removed from a split table of depth 2 or more
\* that still holds a full bucket of two entries
C20_Witness ==
    /\ hlast.op = "remove" /\ hlast.found
    /\ global_depth_ >= 2 /\ num_buckets_ >= 3
    /\ bucket_size_ = 2
    /\ \E b \in 1..Len(heap) : Len(heap[b].list) = 2
    /\ Len(heap[BucketOf(hlast.key)].list) = 0

\* C17: the directory doubles in Insert only for a full target bucket whose
\* local depth is the global depth; the doubling raises the global depth by one
\* and gives every new slot i + old size the bucket of slot i; the split of a
\* bucket whose local depth is below the global depth leaves the global depth
\* and the directory length as they are.
C17_DoublingRule ==
    [][LET b == hlocal[1].bucket
           old == Len(dir_)
       IN /\ (global_depth_' # global_depth_ \/ Len(dir_') # old)
                => /\ hpc[1] = "grow"
                   /\ b = dir_[IndexOf(global_depth_, hlocal[1].key) + 1]
                   /\ IsFull(heap[b].list, bucket_size_)
                   /\ heap[b].depth = global_depth_
                   /\ global_depth_' = global_depth_ + 1
                   /\ Len(dir_') = 2 * old
                   /\ \A i \in 1..old : dir_'[i] = dir_[i] /\ dir_'[i + old] = dir_[i]
          /\ (hpc[1] = "grow" /\ heap[b].depth = global_depth_)
                => global_depth_' = global_depth_ + 1
          /\ (hpc[1] \in {"grow", "split"} /\ heap[b].depth < global_depth_)
                => global_depth_' = global_depth_ /\ Len(dir_') = old
          /\ (hpc[1] = "split" /\ hpc'[1] = "retry")
                => /\ heap'[b].depth = heap[b].depth + 1
                   /\ num_buckets_' = num_buckets_ + 1
      ]_vars

\* C17 witness: in a table that has doubled three times, a bucket whose local
\* depth was below the global depth has just been split
C17_Witness ==
    /\ hpc[1] = "retry"
    /\ global_depth_ = 3 /\ Len(dir_) = 8
    /\ heap[hlocal[1].bucket].depth < global_depth_
====
